---------------------------- MODULE Spec2Model ----------------------------
(***************************************************************************)
(* Model of the skeleton chunk writer of Blender-Tools-for-DSCS:           *)
(*   - gen_bone_hierarchy / gen_bone_hierarchy_line  (SkelInterface.py)    *)
(*   - SkelInterface.to_file                         (SkelInterface.py)    *)
(*   - BaseRW.assert_equal_to_any, BaseRW.cleanup_ragged_chunk (BaseRW.py) *)
(* Python lists are sequences; list indices stay 0-based as in the code,   *)
(* so element k of a list l is l[k + 1].                                   *)
(***************************************************************************)
EXTENDS Integers, Sequences, FiniteSets

VARIABLES
    pc,                   \* position of the running call
    parent_bones,         \* gen_bone_hierarchy: the dict argument, [keys, map]
    to_return,            \* gen_bone_hierarchy: the list of hierarchy lines
    parsed_bones,         \* gen_bone_hierarchy: the placed bones
    bones_left_to_parse,  \* gen_bone_hierarchy: the unplaced bones
    self,                 \* the SkelInterface object's fields
    file,                 \* the output file of to_file
    readwriter,           \* the SkelReader fields to_file assigns
    rw,                   \* a BaseRW object: attribute value and bytestream
    rw_call               \* the last BaseRW call: arguments and outcome

vars == <<pc, parent_bones, to_return, parsed_bones, bones_left_to_parse,
          self, file, readwriter, rw, rw_call>>

hierVars == <<parent_bones, to_return, parsed_bones, bones_left_to_parse>>

(***************************************************************************)
(* Bounds of the model.                                                    *)
(***************************************************************************)
MaxBones == 5        \* bones of a parent map given to gen_bone_hierarchy
MaxFileBones == 3    \* bones of the parent map of a skeleton that is written
MaxRestPose == 6     \* length of rest_pose
MaxUV == 4           \* num_uv_channels
MaxHashes == 4       \* length of uv_channel_material_name_hashes
MaxValue == 2        \* attribute values and assertion candidates
MaxCandidates == 2   \* candidates of one assert_equal_to_any call
MaxStream == 3       \* bytes in the stream
MaxByte == 1         \* byte values; 0 is the pad byte
MaxPosition == 5     \* position argument of cleanup_ragged_chunk
MaxChunkSize == 4    \* chunksize argument of cleanup_ragged_chunk

(***************************************************************************)
(* Python helpers.                                                         *)
(***************************************************************************)
\* lst[-2:]
LastTwo(lst) ==
    IF Len(lst) <= 2 THEN lst ELSE SubSeq(lst, Len(lst) - 1, Len(lst))

\* x in lst
InList(x, lst) == \E k \in 1..Len(lst) : lst[k] = x

\* del lst[idx], idx 0-based
DelAt(lst, idx) == SubSeq(lst, 1, idx) \o SubSeq(lst, idx + 2, Len(lst))

\* lst[::-1]
Reversed(lst) == [k \in 1..Len(lst) |-> lst[Len(lst) + 1 - k]]

(***************************************************************************)
(* The parent maps gen_bone_hierarchy is specified for: bones 0..n-1, each *)
(* parent -1 or a bone, no cycle.  The dict lists the bones in index       *)
(* order; the code compares bones only for equality, so any other key      *)
(* order is one of these maps with the bones renamed.                      *)
(***************************************************************************)
RECURSIVE ReachesRoot(_, _, _)
ReachesRoot(map, bone, fuel) ==
    IF bone = -1 THEN TRUE
    ELSE IF fuel = 0 THEN FALSE
    ELSE ReachesRoot(map, map[bone], fuel - 1)

Acyclic(map, n) == \A b \in 0..(n - 1) : ReachesRoot(map, b, n)

ParentMaps(n) == {map \in [0..(n - 1) -> -1..(n - 1)] : Acyclic(map, n)}

\* bone i is the i-th key of the dict
KeyOrder(n) == [k \in 1..n |-> k - 1]

(***************************************************************************)
(* gen_bone_hierarchy_line                                                 *)
(***************************************************************************)
\* a variant that never looks at the parent
EligibleAlways(parent_bone, parsed) == TRUE

\* a variant that forgets the root sentinel
EligibleNoRoot(parent_bone, parsed) == InList(parent_bone, parsed)

\* the test of line 141
Eligible(parent_bone, parsed) ==
    parent_bone = -1 \/ InList(parent_bone, parsed)

\* a variant that pads without looking at the length of the line
PadNeededAnyLength(mod_j, left, line) == mod_j = Len(left) - 1

\* the test of line 147
PadNeeded(mod_j, left, line) ==
    mod_j = Len(left) - 1 /\ Len(line) < 8

\* the locals before the loop over the four slots (lines 132-136); it is
\* the number of elements bone_iter has yielded so far
LineStart ==
    [to_return |-> <<>>, new_parsed_bone_idxs |-> <<>>,
     it |-> 0, prev_j |-> 0, mod_j |-> -1]

\* one pass of "for i in range(4)" (lines 137-148): the inner loop resumes
\* bone_iter, stops at the first eligible bone or exhausts the iterator
LineSlot(dict, parsed, left, s) ==
    LET n      == Len(left)
        hits   == {k \in s.it..(n - 1) : Eligible(dict.map[left[k + 1]], parsed)}
        found  == hits # {}
        k      == CHOOSE x \in hits : \A y \in hits : x <= y
        \* j of the last element the inner loop looked at
        last_j == IF found THEN k - s.it ELSE n - 1 - s.it
        mod_j  == IF s.it < n THEN last_j + s.prev_j ELSE s.mod_j
        line   == IF found
                  THEN s.to_return \o <<left[k + 1], dict.map[left[k + 1]]>>
                  ELSE s.to_return
        idxs   == IF found THEN Append(s.new_parsed_bone_idxs, mod_j)
                  ELSE s.new_parsed_bone_idxs
    IN  [to_return |-> IF PadNeeded(mod_j, left, line)
                       THEN line \o LastTwo(line) ELSE line,
         new_parsed_bone_idxs |-> idxs,
         it |-> IF found THEN k + 1 ELSE n,
         prev_j |-> IF found THEN mod_j + 1 ELSE s.prev_j,
         mod_j |-> mod_j]

\* a variant in which a bone counts as placed as soon as it is appended,
\* so that a child can follow its parent within one line
gen_bone_hierarchy_line_eager(dict, parsed, left) ==
    LET Bones(s) == [k \in 1..(Len(s.to_return) \div 2) |-> s.to_return[2 * k - 1]]
        Pass(S)  == {LineSlot(dict, parsed \o Bones(s), left, s) : s \in S}
    IN  {[hierarchy_line |-> s.to_return,
          new_parsed_bone_idxs |-> s.new_parsed_bone_idxs] :
             s \in Pass(Pass(Pass(Pass({LineStart}))))}

\* lines 130-149: the four passes of "for i in range(4)", each starting from
\* the locals the pass before left.  The value is the singleton set of the
\* pair (to_return, new_parsed_bone_idxs) the function returns.
gen_bone_hierarchy_line(dict, parsed, left) ==
    LET Pass(S) == {LineSlot(dict, parsed, left, s) : s \in S}
    IN  {[hierarchy_line |-> s.to_return,
          new_parsed_bone_idxs |-> s.new_parsed_bone_idxs] :
             s \in Pass(Pass(Pass(Pass({LineStart}))))}

(***************************************************************************)
(* gen_bone_hierarchy                                                      *)
(***************************************************************************)
\* lines 124-126: move the bones at the given indices, last index first
RECURSIVE MoveParsed(_, _, _)
MoveParsed(parsed, left, idxs) ==
    IF idxs = <<>> THEN [parsed |-> parsed, left |-> left]
    ELSE MoveParsed(Append(parsed, left[Head(idxs) + 1]),
                    DelAt(left, Head(idxs)), Tail(idxs))

UpdateLists(parsed, left, idxs) == MoveParsed(parsed, left, Reversed(idxs))

\* lines 117-119
Enter ==
    /\ pc = "call"
    /\ to_return' = <<>>
    /\ parsed_bones' = <<>>
    /\ bones_left_to_parse' = parent_bones.keys
    /\ pc' = "loop"
    /\ UNCHANGED <<parent_bones, self, file, readwriter, rw, rw_call>>

\* one iteration of the while loop, lines 120-126.  A well-formed map needs
\* at most one line per bone; the guard on Len(to_return) only keeps the
\* state space finite should the loop fail to make progress.
LoopIter ==
    /\ pc = "loop"
    /\ Len(bones_left_to_parse) > 0
    /\ Len(to_return) <= Len(parent_bones.keys)
    /\ \E r \in gen_bone_hierarchy_line(parent_bones, parsed_bones,
                                           bones_left_to_parse) :
         \E u \in {UpdateLists(parsed_bones, bones_left_to_parse,
                               r.new_parsed_bone_idxs)} :
            /\ to_return' = Append(to_return, r.hierarchy_line)
            /\ parsed_bones' = u.parsed
            /\ bones_left_to_parse' = u.left
    /\ UNCHANGED <<pc, parent_bones, self, file, readwriter, rw, rw_call>>

\* line 127
Return ==
    /\ pc = "loop"
    /\ Len(bones_left_to_parse) = 0
    /\ pc' = "returned"
    /\ UNCHANGED <<hierVars, self, file, readwriter, rw, rw_call>>

(***************************************************************************)
(* SkelInterface.  The lists rest_pose and uv_channel_material_name_hashes *)
(* are kept by their lengths: to_file reads nothing else of them.          *)
(***************************************************************************)
\* Python's None, as the value of a field that holds a count otherwise
NoneValue == -1

\* SkelInterface.__init__
NewSkelInterface ==
    [len_rest_pose |-> 0, parent_bones |-> <<>>,
     num_uv_channels |-> NoneValue,
     len_uv_channel_material_name_hashes |-> 0]

\* self.parent_bones: the list of (bone, parent) pairs of a parent map
PairList(n, map) == [k \in 1..n |-> <<k - 1, map[k - 1]>>]

\* line 48, {c: p for c, p in self.parent_bones}; a later pair of the same
\* bone overwrites the value of an earlier one
DictOf(pairs) ==
    LET bones == {pairs[k][1] : k \in 1..Len(pairs)}
        LastOf(c) == CHOOSE k \in 1..Len(pairs) :
                        /\ pairs[k][1] = c
                        /\ \A m \in (k + 1)..Len(pairs) : pairs[m][1] # c
    IN  [keys |-> [k \in 1..Len(pairs) |-> pairs[k][1]],
         map  |-> [c \in bones |-> pairs[LastOf(c)][2]]]

\* line 62
RelPtrToEndOfBoneHierarchyData(num_lines) == 40 + num_lines * 16

\* a variant that counts 12 bytes, not 12 floats, per bone
RelPtrToEndOfBoneDefsBytes(hierarchy_end, num_bones) ==
    hierarchy_end + num_bones * 12 - 4

\* line 63
RelPtrToEndOfBoneDefs(hierarchy_end, num_bones) ==
    hierarchy_end + num_bones * 12 * 4 - 4

\* line 64
RelPtrToEndOfParentBones(bone_defs_end, num_bones) ==
    bone_defs_end + num_bones * 2 - 16

\* line 65
AbsEndOfParentBonesChunk(parent_bones_end, num_uv_channels) ==
    parent_bones_end + num_uv_channels + 44

\* a variant without the outer modulo
RelPtrToEndOfParentBonesChunkNoMod(parent_bones_end, num_uv_channels) ==
    (parent_bones_end + num_uv_channels + 12)
      + (16 - (AbsEndOfParentBonesChunk(parent_bones_end, num_uv_channels) % 16))

\* lines 67-68
RelPtrToEndOfParentBonesChunk(parent_bones_end, num_uv_channels) ==
    (parent_bones_end + num_uv_channels + 12)
      + ((16 - (AbsEndOfParentBonesChunk(parent_bones_end, num_uv_channels) % 16)) % 16)

\* line 69
RelPtrBoneNameHashes(chunk_end, num_bones) == chunk_end + num_bones * 4 - 4

\* line 70
UnknownRelPtr3(bone_name_hashes, num_uv_channels) ==
    bone_name_hashes + num_uv_channels * 4 - 4

\* lines 72-74
BytesAfterParentBonesChunk(unknown_rel_ptr_3, chunk_end, len_hashes) ==
    LET unaligned == (unknown_rel_ptr_3 + 40) - (chunk_end + 32) + len_hashes
    IN  unaligned + (16 - (unaligned % 16))

\* line 76
TotalBytes(chunk_end, bytes_after) == chunk_end + bytes_after + 32

\* lines 41-49: open(path, 'wb') creates or truncates the file; the header
\* counts are copied and gen_bone_hierarchy is called on the dict
ToFileOpen ==
    /\ pc = "idle"
    /\ file' = "open"
    /\ readwriter' = [write_called |-> FALSE,
                      filetype |-> "20SE",
                      num_bones |-> self.len_rest_pose,
                      num_uv_channels |-> self.num_uv_channels]
    /\ parent_bones' = DictOf(self.parent_bones)
    /\ pc' = "call"
    /\ UNCHANGED <<to_return, parsed_bones, bones_left_to_parse, self, rw, rw_call>>

\* the fields assigned by lines 51-64
HeaderUpToParentBones(r, lines, hashes) ==
    LET hier == RelPtrToEndOfBoneHierarchyData(Len(lines))
        defs == RelPtrToEndOfBoneDefs(hier, r.num_bones)
        ppb  == RelPtrToEndOfParentBones(defs, r.num_bones)
    IN  [write_called |-> r.write_called,
         filetype |-> r.filetype,
         num_bones |-> r.num_bones,
         num_uv_channels |-> r.num_uv_channels,
         num_bone_hierarchy_data_lines |-> Len(lines),
         bone_hierarchy_data |-> lines,
         len_uv_channel_material_name_hashes |-> hashes,
         rel_ptr_to_end_of_bone_hierarchy_data |-> hier,
         rel_ptr_to_end_of_bone_defs |-> defs,
         rel_ptr_to_end_of_parent_bones |-> ppb]

\* the fields assigned by lines 67-77
HeaderFrom(h) ==
    LET chunk  == RelPtrToEndOfParentBonesChunk(h.rel_ptr_to_end_of_parent_bones,
                                                h.num_uv_channels)
        hashes == RelPtrBoneNameHashes(chunk, h.num_bones)
        unk3   == UnknownRelPtr3(hashes, h.num_uv_channels)
        after  == BytesAfterParentBonesChunk(
                      unk3, chunk, h.len_uv_channel_material_name_hashes)
    IN  [rel_ptr_to_end_of_parent_bones_chunk |-> chunk,
         rel_ptr_bone_name_hashes |-> hashes,
         unknown_rel_ptr_3 |-> unk3,
         total_bytes |-> TotalBytes(chunk, after),
         remaining_bytes_after_parent_bones_chunk |-> after]

\* the record r with the fields of record more added
WithFields(r, more) ==
    [f \in (DOMAIN r) \cup (DOMAIN more) |->
        IF f \in DOMAIN more THEN more[f] ELSE r[f]]

\* lines 51-84 when num_uv_channels is a number: every header field is
\* assigned, readwriter.write() is called and the with block closes the file
ToFileWrite ==
    /\ pc = "returned"
    /\ file = "open"
    /\ self.num_uv_channels # NoneValue
    /\ \E h \in {HeaderUpToParentBones(readwriter, to_return,
                    self.len_uv_channel_material_name_hashes)} :
          readwriter' = [WithFields(h, HeaderFrom(h)) EXCEPT !.write_called = TRUE]
    /\ file' = "closed"
    /\ pc' = "done"
    /\ UNCHANGED <<hierVars, self, rw, rw_call>>

\* lines 51-65 when num_uv_channels is None: the sum of line 65 raises
\* TypeError, the with block closes the file and write() is never called
ToFileRaise ==
    /\ pc = "returned"
    /\ file = "open"
    /\ self.num_uv_channels = NoneValue
    /\ readwriter' = HeaderUpToParentBones(readwriter, to_return,
                        self.len_uv_channel_material_name_hashes)
    /\ file' = "closed"
    /\ pc' = "TypeError"
    /\ UNCHANGED <<hierVars, self, rw, rw_call>>

(***************************************************************************)
(* BaseRW.  rw.value is the attribute the assertions read, rw.bytestream   *)
(* the bytes of the stream and rw.pos its cursor; rw_call records the last *)
(* call and how it ended.                                                  *)
(***************************************************************************)
\* line 27, self.pad_byte = b'\x00'
pad_byte == 0

\* lines 181-183 with the check of assert_equal (line 166)
check_assertion_now(attribute, value) ==
    IF attribute = value THEN "ok" ELSE "ViolatedAssumptionError"

\* lines 173-175: the loop stops at the first assertion that raises
RECURSIVE assert_equal_to_any(_, _)
assert_equal_to_any(attribute, values) ==
    IF values = <<>> THEN "ok"
    ELSE IF check_assertion_now(attribute, Head(values)) # "ok"
         THEN check_assertion_now(attribute, Head(values))
         ELSE assert_equal_to_any(attribute, Tail(values))

\* line 125
NumBytesLeftToRead(position, chunksize) ==
    (chunksize - (position % chunksize)) % chunksize

\* bytestream.read(n): at most n bytes, fewer at the end of the stream
StreamRead(stream, pos, n) ==
    SubSeq(stream, pos + 1, IF pos + n <= Len(stream) THEN pos + n ELSE Len(stream))

\* line 127: a failing assert statement raises AssertionError
PadAssert(data, n) ==
    IF data = [k \in 1..n |-> pad_byte] THEN "ok" ELSE "AssertionError"

\* lines 165-168
AssertEqual ==
    /\ pc = "rw"
    /\ \E value \in 0..MaxValue :
          rw_call' = [op |-> "assert_equal", values |-> <<value>>,
                      outcome |-> check_assertion_now(rw.value, value)]
    /\ UNCHANGED <<pc, hierVars, self, file, readwriter, rw>>

\* lines 170-171
AssertIsZero ==
    /\ pc = "rw"
    /\ rw_call' = [op |-> "assert_is_zero", values |-> <<0>>,
                   outcome |-> check_assertion_now(rw.value, 0)]
    /\ UNCHANGED <<pc, hierVars, self, file, readwriter, rw>>

\* lines 173-175
AssertEqualToAny ==
    /\ pc = "rw"
    /\ \E n \in 0..MaxCandidates :
         \E values \in [1..n -> 0..MaxValue] :
            rw_call' = [op |-> "assert_equal_to_any", values |-> values,
                        outcome |-> assert_equal_to_any(rw.value, values)]
    /\ UNCHANGED <<pc, hierVars, self, file, readwriter, rw>>

\* lines 118-127
CleanupRaggedChunk ==
    /\ pc = "rw"
    /\ \E position \in 0..MaxPosition, chunksize \in 1..MaxChunkSize :
         \E n \in {NumBytesLeftToRead(position, chunksize)} :
           \E data \in {StreamRead(rw.bytestream, rw.pos, n)} :
              /\ rw' = [rw EXCEPT !.pos = rw.pos + Len(data)]
              /\ rw_call' = [op |-> "cleanup_ragged_chunk",
                             position |-> position, chunksize |-> chunksize,
                             requested |-> n, data |-> data,
                             outcome |-> PadAssert(data, n)]
    /\ UNCHANGED <<pc, hierVars, self, file, readwriter>>

(***************************************************************************)
(* Objects not taking part in a run.                                       *)
(***************************************************************************)
NoReadwriter == [write_called |-> FALSE]
NoRW == [value |-> 0, bytestream |-> <<>>, pos |-> 0]
NoCall == [op |-> "none"]
NoDict == [keys |-> <<>>, map |-> <<>>]

(***************************************************************************)
(* Spec: a call gen_bone_hierarchy(parent_bones) on any well-formed map.   *)
(***************************************************************************)
Init ==
    /\ pc = "call"
    /\ \E n \in 0..MaxBones :
         \E map \in ParentMaps(n) :
            parent_bones = [keys |-> KeyOrder(n), map |-> map]
    /\ to_return = <<>>
    /\ parsed_bones = <<>>
    /\ bones_left_to_parse = <<>>
    /\ self = NewSkelInterface
    /\ file = "untouched"
    /\ readwriter = NoReadwriter
    /\ rw = NoRW
    /\ rw_call = NoCall

Next == Enter \/ LoopIter \/ Return

Spec == Init /\ [][Next]_vars

FairSpec == Spec /\ WF_vars(Next)

(***************************************************************************)
(* ToFileSpec: to_file on a SkelInterface whose fields a producer has set, *)
(* consistently or not; num_uv_channels may still be None.                 *)
(***************************************************************************)
ToFileInit ==
    /\ pc = "idle"
    /\ \E n \in 0..MaxFileBones :
         \E map \in ParentMaps(n) :
           \E rest \in 0..MaxRestPose, uv \in {NoneValue} \cup 0..MaxUV,
              hashes \in 0..MaxHashes :
              self = [len_rest_pose |-> rest,
                      parent_bones |-> PairList(n, map),
                      num_uv_channels |-> uv,
                      len_uv_channel_material_name_hashes |-> hashes]
    /\ parent_bones = NoDict
    /\ to_return = <<>>
    /\ parsed_bones = <<>>
    /\ bones_left_to_parse = <<>>
    /\ file = "untouched"
    /\ readwriter = NoReadwriter
    /\ rw = NoRW
    /\ rw_call = NoCall

ToFileNext ==
    ToFileOpen \/ Enter \/ LoopIter \/ Return \/ ToFileWrite \/ ToFileRaise

ToFileSpec == ToFileInit /\ [][ToFileNext]_vars

(***************************************************************************)
(* RWSpec: calls on a BaseRW object over any short stream.                 *)
(***************************************************************************)
RWInit ==
    /\ pc = "rw"
    /\ \E value \in 0..MaxValue, n \in 0..MaxStream :
         \E stream \in [1..n -> 0..MaxByte] :
            rw = [value |-> value, bytestream |-> stream, pos |-> 0]
    /\ rw_call = NoCall
    /\ parent_bones = NoDict
    /\ to_return = <<>>
    /\ parsed_bones = <<>>
    /\ bones_left_to_parse = <<>>
    /\ self = NewSkelInterface
    /\ file = "untouched"
    /\ readwriter = NoReadwriter

RWNext == AssertEqual \/ AssertIsZero \/ AssertEqualToAny \/ CleanupRaggedChunk

RWSpec == RWInit /\ [][RWNext]_vars

(***************************************************************************)
(* Reading a hierarchy line: pair i of a line, the bones of a list of      *)
(* lines, and the pairs of a line that place a bone (a pair that repeats   *)
(* its predecessor is padding).                                            *)
(***************************************************************************)
Pair(line, i) == <<line[2 * i - 1], line[2 * i]>>

IsPadding(line, i) == i > 1 /\ Pair(line, i) = Pair(line, i - 1)

\* the lines in which bone b is placed
LinesPlacing(b) ==
    {l \in 1..Len(to_return) :
        /\ Len(to_return[l]) = 8
        /\ \E i \in 1..4 : Pair(to_return[l], i)[1] = b
                           /\ ~IsPadding(to_return[l], i)}

\* the number of (line, slot) places holding a non-padding pair of bone b
TimesPlaced(b) ==
    Cardinality({p \in (1..Len(to_return)) \X (1..4) :
        /\ Len(to_return[p[1]]) = 8
        /\ Pair(to_return[p[1]], p[2])[1] = b
        /\ ~IsPadding(to_return[p[1]], p[2])})

\* bones placed by the lines before line l
PlacedBefore(l) ==
    {to_return[m][2 * i - 1] : m \in 1..(l - 1), i \in 1..4}

KeySet == {parent_bones.keys[k] : k \in 1..Len(parent_bones.keys)}

RECURSIVE IsAncestor(_, _, _)
\* a is a proper ancestor of b (fuel bounds the climb)
IsAncestor(a, b, fuel) ==
    LET p == parent_bones.map[b]
    IN  /\ fuel > 0
        /\ p # -1
        /\ (p = a \/ IsAncestor(a, p, fuel - 1))

ScenarioMap == [keys |-> <<0, 1, 2>>, map |-> [b \in 0..2 |-> IF b = 0 THEN -1 ELSE 0]]

(***************************************************************************)
(* C1 (as stated): the map {0: -1, 1: 0, 2: 0} yields the single line      *)
(* [0,-1,1,0,2,0,2,0].                                                     *)
(***************************************************************************)
C1_SingleLine ==
    (pc = "returned" /\ parent_bones = ScenarioMap)
        => to_return = << <<0, -1, 1, 0, 2, 0, 2, 0>> >>

(***************************************************************************)
(* C1 (amended): the map {0: -1, 1: 0, 2: 0} yields the two lines          *)
(* [0,-1,0,-1,0,-1,0,-1] and [1,0,2,0,2,0,2,0]; in every run a bone is     *)
(* placed by a line only if its parent is -1 or was placed by an earlier   *)
(* line, never by an earlier slot of the same line.                        *)
(***************************************************************************)
C1_TwoLines ==
    /\ (pc = "returned" /\ parent_bones = ScenarioMap)
          => to_return = << <<0, -1, 0, -1, 0, -1, 0, -1>>,
                            <<1, 0, 2, 0, 2, 0, 2, 0>> >>
    /\ \A l \in 1..Len(to_return) :
          /\ Len(to_return[l]) = 8
          /\ \A i \in 1..4 :
                Pair(to_return[l], i)[2] \in {-1} \cup PlacedBefore(l)

C1_Witness ==
    /\ pc = "returned"
    /\ parent_bones = ScenarioMap
    /\ Len(to_return) = 2

(***************************************************************************)
(* C2: every line holds exactly 4 pairs: k newly placed, pairwise distinct *)
(* bones (1 <= k <= 4) followed by 4-k copies of the k-th pair.            *)
(***************************************************************************)
LineShape(l, k) ==
    LET line == to_return[l]
    IN  /\ \A i \in 1..k : Pair(line, i)[1] \notin PlacedBefore(l)
        /\ \A i, j \in 1..k : i # j => Pair(line, i)[1] # Pair(line, j)[1]
        /\ \A i \in (k + 1)..4 : Pair(line, i) = Pair(line, k)

C2_LineShape ==
    \A l \in 1..Len(to_return) :
        /\ Len(to_return[l]) = 8
        /\ \E k \in 1..4 : LineShape(l, k)

C2_Witness ==
    /\ pc = "returned"
    /\ \E l, m \in 1..Len(to_return) :
          /\ LineShape(l, 3)
          /\ LineShape(m, 1)

(***************************************************************************)
(* C3: when the call returns, every bone of the map is placed exactly      *)
(* once, each placing pair carries the bone's parent from the map, and no  *)
(* bone is placed by an earlier line than any of its ancestors; after each *)
(* line the placed and the unplaced list partition the bones.              *)
(***************************************************************************)
Partition ==
    LET all == parsed_bones \o bones_left_to_parse
    IN  /\ Len(all) = Len(parent_bones.keys)
        /\ {all[k] : k \in 1..Len(all)} = KeySet

C3_Topological ==
    /\ pc \in {"loop", "returned"} => Partition
    /\ pc = "returned" =>
          /\ \A b \in KeySet : TimesPlaced(b) = 1
          /\ \A l \in 1..Len(to_return) :
                /\ Len(to_return[l]) = 8
                /\ \A i \in 1..4 :
                      /\ Pair(to_return[l], i)[1] \in KeySet
                      /\ Pair(to_return[l], i)[2]
                            = parent_bones.map[Pair(to_return[l], i)[1]]
          /\ \A a, b \in KeySet :
                IsAncestor(a, b, Len(parent_bones.keys)) =>
                    \A la \in LinesPlacing(a), lb \in LinesPlacing(b) : la <= lb

\* a chain of three bones in which a child precedes its parent in the dict
C3_Witness ==
    /\ pc = "returned"
    /\ Len(to_return) >= 3
    /\ \E a, b \in KeySet :
          /\ IsAncestor(a, b, Len(parent_bones.keys))
          /\ parent_bones.map[a] # -1
          /\ \E i, j \in 1..Len(parent_bones.keys) :
                i < j /\ parent_bones.keys[i] = b /\ parent_bones.keys[j] = a

(***************************************************************************)
(* C4: every iteration of the while loop places at least one bone, so the  *)
(* unplaced list strictly shrinks, and the call returns.                   *)
(***************************************************************************)
C4_Terminates ==
    /\ [][LoopIter => Len(bones_left_to_parse') < Len(bones_left_to_parse)]_vars
    /\ <>(pc = "returned")

C4_Witness ==
    /\ pc = "returned"
    /\ Len(to_return) >= 3
    /\ bones_left_to_parse = <<>>

(***************************************************************************)
(* C5: the absolute offset rel_ptr_to_end_of_parent_bones_chunk + 32 is a  *)
(* multiple of 16, and the padding over rel_ptr_to_end_of_parent_bones +   *)
(* num_uv_channels + 12 is in 0..15, 0 when that offset is aligned already.*)
(***************************************************************************)
UnpaddedChunkEnd ==
    readwriter.rel_ptr_to_end_of_parent_bones + readwriter.num_uv_channels + 12

ChunkPadding == readwriter.rel_ptr_to_end_of_parent_bones_chunk - UnpaddedChunkEnd

C5_Aligned ==
    pc = "done" =>
        /\ (readwriter.rel_ptr_to_end_of_parent_bones_chunk + 32) % 16 = 0
        /\ ChunkPadding \in 0..15
        /\ (UnpaddedChunkEnd + 32) % 16 = 0 => ChunkPadding = 0

\* a skeleton with bones whose unpadded offset is aligned already
C5_Witness ==
    /\ pc = "done"
    /\ readwriter.num_bones > 0
    /\ (UnpaddedChunkEnd + 32) % 16 = 0
    /\ ChunkPadding = 0

(***************************************************************************)
(* C6 (as stated): every relative pointer is the one before it plus the    *)
(* byte length of the section: 40 + 16*lines, + num_bones*48,              *)
(* + num_bones*2, chunk end + num_bones*4, + num_uv_channels*4.            *)
(***************************************************************************)
C6_PlainAccumulation ==
    pc = "done" =>
        /\ readwriter.rel_ptr_to_end_of_bone_hierarchy_data
              = 40 + 16 * Len(to_return)
        /\ readwriter.rel_ptr_to_end_of_bone_defs
              = readwriter.rel_ptr_to_end_of_bone_hierarchy_data
                  + readwriter.num_bones * 48
        /\ readwriter.rel_ptr_to_end_of_parent_bones
              = readwriter.rel_ptr_to_end_of_bone_defs + readwriter.num_bones * 2
        /\ readwriter.rel_ptr_bone_name_hashes
              = readwriter.rel_ptr_to_end_of_parent_bones_chunk
                  + readwriter.num_bones * 4
        /\ readwriter.unknown_rel_ptr_3
              = readwriter.rel_ptr_bone_name_hashes + readwriter.num_uv_channels * 4

(***************************************************************************)
(* C6 (amended): every relative pointer is the one before it plus the byte *)
(* length of the section less a fixed correction: 40 + 16*lines,           *)
(* + num_bones*48 - 4, + num_bones*2 - 16, chunk end + num_bones*4 - 4,    *)
(* + num_uv_channels*4 - 4.                                                *)
(***************************************************************************)
C6_Accumulation ==
    pc = "done" =>
        /\ readwriter.num_bone_hierarchy_data_lines = Len(to_return)
        /\ readwriter.rel_ptr_to_end_of_bone_hierarchy_data
              = 40 + 16 * Len(to_return)
        /\ readwriter.rel_ptr_to_end_of_bone_defs
              = readwriter.rel_ptr_to_end_of_bone_hierarchy_data
                  + readwriter.num_bones * 48 - 4
        /\ readwriter.rel_ptr_to_end_of_parent_bones
              = readwriter.rel_ptr_to_end_of_bone_defs
                  + readwriter.num_bones * 2 - 16
        /\ readwriter.rel_ptr_bone_name_hashes
              = readwriter.rel_ptr_to_end_of_parent_bones_chunk
                  + readwriter.num_bones * 4 - 4
        /\ readwriter.unknown_rel_ptr_3
              = readwriter.rel_ptr_bone_name_hashes
                  + readwriter.num_uv_channels * 4 - 4

C6_Witness ==
    /\ pc = "done"
    /\ readwriter.write_called
    /\ readwriter.num_bones > 0
    /\ readwriter.num_uv_channels > 0
    /\ Len(to_return) > 1

(***************************************************************************)
(* C7: assert_equal_to_any returns normally whenever the attribute equals  *)
(* at least one candidate, and raises only when it equals none.            *)
(***************************************************************************)
C7_AnyCandidate ==
    rw_call.op = "assert_equal_to_any" =>
        ((\E k \in 1..Len(rw_call.values) : rw_call.values[k] = rw.value)
            => rw_call.outcome = "ok")

(***************************************************************************)
(* C8: to_file on a skeleton with inconsistent array lengths ends in an    *)
(* error, with write() not called and the output file never opened.        *)
(***************************************************************************)
\* the counts are all set, and disagree
Inconsistent ==
    /\ self.num_uv_channels # NoneValue
    /\ \/ self.len_rest_pose # Len(self.parent_bones)
       \/ self.num_uv_channels # self.len_uv_channel_material_name_hashes

C8_FailsFast ==
    (Inconsistent /\ pc \in {"done", "TypeError"}) =>
        /\ pc # "done"
        /\ ~readwriter.write_called
        /\ file = "untouched"

(***************************************************************************)
(* C9: cleanup_ragged_chunk reads (chunksize - position mod chunksize) mod *)
(* chunksize bytes; when the stream holds that many, it returns normally   *)
(* if all of them are pad bytes and raises ViolatedAssumptionError if not. *)
(***************************************************************************)
C9_PaddingOrViolation ==
    rw_call.op = "cleanup_ragged_chunk" =>
        LET n == (rw_call.chunksize - (rw_call.position % rw_call.chunksize))
                    % rw_call.chunksize
            allPad == \A k \in 1..Len(rw_call.data) : rw_call.data[k] = 0
        IN  /\ rw_call.requested = n
            /\ Len(rw_call.data) = n =>
                  rw_call.outcome = IF allPad THEN "ok" ELSE "ViolatedAssumptionError"

(***************************************************************************)
(* C10: remaining_bytes_after_parent_bones_chunk is the unaligned trailing *)
(* byte count rounded up to a multiple of 16 (padding in 0..15, 0 when the *)
(* count is a multiple of 16 already), and total_bytes is the chunk end    *)
(* plus that plus 32.                                                      *)
(***************************************************************************)
UnalignedBytesAfter ==
    (readwriter.unknown_rel_ptr_3 + 40)
      - (readwriter.rel_ptr_to_end_of_parent_bones_chunk + 32)
      + readwriter.len_uv_channel_material_name_hashes

C10_RoundedUp ==
    pc = "done" =>
        /\ readwriter.remaining_bytes_after_parent_bones_chunk % 16 = 0
        /\ (readwriter.remaining_bytes_after_parent_bones_chunk
              - UnalignedBytesAfter) \in 0..15
        /\ readwriter.total_bytes
              = readwriter.rel_ptr_to_end_of_parent_bones_chunk
                  + readwriter.remaining_bytes_after_parent_bones_chunk + 32

=============================================================================
